---- MODULE Spec2Model ----
(***************************************************************************)
(* Verification model of adaptive-colors (js).                             *)
(*                                                                         *)
(* Number conventions                                                      *)
(*  - contrast ratios and contrast multipliers are integers counting       *)
(*    hundredths (4.5 is 450, -1 is -100);                                 *)
(*  - base_v is an integer counting hundredths (0.5 is 50);                *)
(*  - an rgb channel is an integer counting eighths of a 0..255 step       *)
(*    (255 is 2040, 1.25 is 10);                                           *)
(*  - a colour string is the triple <<h, s, l>> of its HSLuv coordinates,   *)
(*    l counting tenths.                                                   *)
(* Arithmetic is exact: the rounding error of IEEE doubles is not part of  *)
(* the model.  Ratios of a Color are arrays (the name-to-ratio object form *)
(* takes the other branch of palette() and is not among the inputs).       *)
(***************************************************************************)
EXTENDS Integers, Sequences, FiniteSets, TLC

VARIABLES
  args,              \* pure-function call: the function and its arguments
  ret,               \* pure-function call: what the call returned
  search,            \* generate_colors: the locals of the running search(ratio)
  constructed,       \* Theme: the constructor has completed
  heap,              \* the Color objects, by identity
  colors,            \* Theme.#colors (identities of Color objects)
  background_color,  \* Theme.#background_color (a private clone)
  lightness,         \* Theme.#lightness
  contrast,          \* Theme.#contrast
  saturation,        \* Theme.#saturation
  algorithm,         \* Theme.#algorithm
  output_format,     \* Theme.#output_format
  bg_scale,          \* Theme.#_background_color_scale
  bg_value,          \* Theme.#_background_color_value
  output,            \* Theme.#_output
  result             \* outcome of the last Theme call

fnVars == <<args, ret, search>>
themeVars == <<constructed, heap, colors, background_color, lightness, contrast,
               saturation, algorithm, output_format, bg_scale, bg_value, output, result>>
vars == <<args, ret, search, constructed, heap, colors, background_color, lightness, contrast,
          saturation, algorithm, output_format, bg_scale, bg_value, output, result>>

\* null; a field that may be null holds <<>> or <<value>>
null == <<>>
undefined == "undefined"

(***************************************************************************)
(* Bounds                                                                  *)
(***************************************************************************)
MaxRatios == 3
MaxKeyColors == 3

(***************************************************************************)
(* math/math.js, utils/iter.js                                             *)
(***************************************************************************)
\* Math.round(n / m) for m > 0: halves go towards +Infinity
Math_round(n, m) == (2 * n + m) \div (2 * m)

\* round(n / m, d), returned as the integer count of 10^-d units
round(n, m, d) == Math_round(n * (10 ^ d), m)

\* Math.min of an empty list
Infinity == 1000000

RECURSIVE min(_)
min(l) == IF l = <<>> THEN Infinity
          ELSE LET m == min(Tail(l)) IN IF Head(l) < m THEN Head(l) ELSE m

range(n) == IF n > 0 THEN [i \in 1..n |-> i - 1] ELSE <<>>

numeric(a, b) == a < b

sort_numeric(l) == SortSeq(l, numeric)

\* Array.prototype.indexOf: zero-based index of the first occurrence, or -1
indexOf(l, x) ==
  IF \E i \in 1..Len(l) : l[i] = x
  THEN (CHOOSE i \in 1..Len(l) : l[i] = x /\ \A j \in 1..(i - 1) : l[j] # x) - 1
  ELSE -1

(***************************************************************************)
(* color/contrast.js: ratios                                               *)
(***************************************************************************)
CONTRAST_ALGORITHMS == {"wcag2", "wcag3"}

\* MIN_RATIO with the two thresholds exchanged
MIN_RATIO_exchanged == [wcag2 |-> 100, wcag3 |-> 0]

MIN_RATIO == [wcag2 |-> 0, wcag3 |-> 100]

\* r >= undefined is false for an algorithm MIN_RATIO does not list
is_positive_ratio(alg, r) ==
  IF alg \in DOMAIN MIN_RATIO THEN r >= MIN_RATIO[alg] ELSE FALSE

min_positive_ratio(ratios, alg) ==
  LET f(r) == is_positive_ratio(alg, r) IN min(SelectSeq(ratios, f))

multiply_contrast_ratio(ratio, multiplier) ==
  IF ratio > 100 THEN round((ratio - 100) * multiplier + 10000, 10000, 2)
  ELSE IF ratio < -100 THEN round((ratio + 100) * multiplier - 10000, 10000, 2)
  ELSE 100

\* the array the caller passed, as ratios.sort(numeric) leaves it
ratio_names_sorted(ratios) == sort_numeric(ratios)

\* ratio_names counting the smallest positive ratio among the negative ones
ratio_names_off_by_one(ratios0, alg) ==
  LET ratios == ratio_names_sorted(ratios0)
      mn     == min_positive_ratio(ratios, alg)
      min_i  == indexOf(ratios, mn)
      n_neg  == min_i + 1
      n_pos  == Len(ratios) - n_neg
      neg    == [i \in 1..Len(range(n_neg)) |-> round(100 * (range(n_neg)[i] + 1), n_neg + 1, 0)]
      pos    == [i \in 1..Len(range(n_pos)) |-> (range(n_pos)[i] + 1) * 100]
      n_arr  == sort_numeric(neg \o pos)
  IN [i \in 1..Len(n_arr) |-> ToString(n_arr[i])]

ratio_names(ratios0, alg) ==
  LET ratios == ratio_names_sorted(ratios0)
      mn     == min_positive_ratio(ratios, alg)
      min_i  == indexOf(ratios, mn)
      n_neg  == min_i
      n_pos  == Len(ratios) - n_neg
      neg    == [i \in 1..Len(range(n_neg)) |-> round(100 * (range(n_neg)[i] + 1), n_neg + 1, 0)]
      pos    == [i \in 1..Len(range(n_pos)) |-> (range(n_pos)[i] + 1) * 100]
      n_arr  == sort_numeric(neg \o pos)
  IN [i \in 1..Len(n_arr) |-> ToString(n_arr[i])]

(***************************************************************************)
(* color/contrast.js: contrast                                             *)
(*                                                                         *)
(* A linearised channel counts units of 1/131784, a luminance counts units *)
(* of 1/658920000; both are exact for channels in the linear segment       *)
(* (n / 12.92) and for 255.  A contrast value is the fraction <<n, d>> in  *)
(* lowest terms with d > 0.                                                *)
(***************************************************************************)
RECURSIVE gcd(_, _)
gcd(a, b) == IF b = 0 THEN a ELSE gcd(b, a % b)

abs(n) == IF n < 0 THEN -n ELSE n

Frac(n, d) == LET g == gcd(abs(n), d) IN <<n \div g, d \div g>>

neg(q) == <<-q[1], q[2]>>

One == <<1, 1>>

is_darkmode(base_v) == base_v < 50

\* ((n + 0.055) / 1.055) ** 2.4 at the channels of the model that lie above the
\* linear segment, rounded to the linearised unit (1 exactly at 255)
gamma_expand == [k \in {1024, 2040} |-> IF k = 2040 THEN 131784 ELSE 28447]

\* n <= 0.03928 ? n / 12.92 : ((n + 0.055) / 1.055) ** 2.4, for n = k / 2040
linearize(k) == IF k * 100000 <= 3928 * 2040 THEN 5 * k ELSE gamma_expand[k]

wcag2_relative_luminance(r, g, b) ==
  1063 * linearize(r) + 3576 * linearize(g) + 361 * linearize(b)

\* (light + 0.05) / (dark + 0.05)
contrast_ratio(light, dark) == Frac(light + 32946000, dark + 32946000)

\* wcag2_contrast whose dark-mode branch forgets the sign
wcag2_contrast_unsigned_dark(color, base, dark_mode) ==
  LET yc == wcag2_relative_luminance(color[1], color[2], color[3])
      yb == wcag2_relative_luminance(base[1], base[2], base[3])
      is_light_on_dark == yc >= yb
  IN IF yb = yc THEN One
     ELSE IF dark_mode
          THEN IF is_light_on_dark THEN contrast_ratio(yc, yb)
               ELSE contrast_ratio(yb, yc)
          ELSE IF is_light_on_dark THEN neg(contrast_ratio(yc, yb))
               ELSE contrast_ratio(yb, yc)

\* wcag2_contrast without the trivial case
wcag2_contrast_no_trivial(color, base, dark_mode) ==
  LET yc == wcag2_relative_luminance(color[1], color[2], color[3])
      yb == wcag2_relative_luminance(base[1], base[2], base[3])
      is_light_on_dark == yc >= yb
  IN IF dark_mode
     THEN IF is_light_on_dark THEN contrast_ratio(yc, yb)
          ELSE neg(contrast_ratio(yb, yc))
     ELSE IF is_light_on_dark THEN neg(contrast_ratio(yc, yb))
          ELSE contrast_ratio(yb, yc)

wcag2_contrast(color, base, dark_mode) ==
  LET yc == wcag2_relative_luminance(color[1], color[2], color[3])
      yb == wcag2_relative_luminance(base[1], base[2], base[3])
      is_light_on_dark == yc >= yb
  IN IF yb = yc THEN One
     ELSE IF dark_mode
          THEN IF is_light_on_dark THEN contrast_ratio(yc, yb)
               ELSE neg(contrast_ratio(yb, yc))
          ELSE IF is_light_on_dark THEN neg(contrast_ratio(yc, yb))
               ELSE contrast_ratio(yb, yc)

(***************************************************************************)
(* color/space.js, color/fmt.js                                            *)
(***************************************************************************)
COLOR_SPACES ==
  [hex |-> "hex", rgb |-> "rgb", hsl |-> "hsl", hsv |-> "hsv", hsluv |-> "hsluv",
   lab |-> "lab", lch |-> "lch", oklab |-> "oklab", oklch |-> "oklch",
   cam02 |-> "cam02jab", cam02p |-> "cam02jch", cam16 |-> "cam16jab",
   cam16p |-> "cam16jch", hct |-> "hct"]

pick(o, ks) == [k \in ks |-> o[k]]

INTERPOLATION_COLOR_SPACES ==
  pick(COLOR_SPACES, {"rgb", "hsl", "hsv", "hsluv", "lab", "lch", "oklab", "oklch",
                      "cam02", "cam02p", "cam16", "cam16p", "hct"})

\* Object.prototype.hasOwnProperty on an object with string keys
hasOwnProperty(o, k) == k \in DOMAIN o

\* o[k], undefined for a key the object does not have
get(o, k) == IF k \in DOMAIN o THEN o[k] ELSE undefined

\* the spaces COLOR_SPACE_FORMATTERS has an entry for
COLOR_SPACE_FORMATTERS == {"rgb", "hsl", "lab", "lch", "oklab", "oklch"}

\* fmt_color throws 'unrecognized format' for this output_format
fmt_color_throws(fmt) ==
  LET space == get(COLOR_SPACES, fmt)
  IN space # "hex" /\ space \notin COLOR_SPACE_FORMATTERS

\* the css string of color in the syntax of the space of output_format
fmt_color(color, fmt) == [space |-> get(COLOR_SPACES, fmt), color |-> color]

(***************************************************************************)
(* color/color.js: Color.  A call returns [ok, ...]: ok is FALSE when the  *)
(* call throws, and error is the message.                                  *)
(***************************************************************************)
Thrown(msg) == [ok |-> FALSE, error |-> msg]

\* chroma.valid on the colour strings of the model
chroma_valid(ck) == ck[1] \in 0..360 /\ ck[2] \in 0..100 /\ ck[3] \in 0..1000

saturate(key_colors, sat) ==
  IF sat = null THEN key_colors
  ELSE [i \in 1..Len(key_colors) |->
          <<key_colors[i][1], (key_colors[i][2] * sat[1]) \div 100, key_colors[i][3]>>]

between(l, x, h) == l <= x /\ x <= h

\* the assertion of Color.with_saturation
saturation_ok(sat) == sat = null \/ between(0, sat[1], 100)

Color_with_saturation(c, sat) ==
  IF ~saturation_ok(sat)
  THEN Thrown("saturation should either be null or a number between 0 and 100")
  ELSE [ok |-> TRUE,
        color |-> [c EXCEPT !.saturation = sat,
                            !.resolved_key_colors = saturate(c.key_colors, sat)]]

\* new Color(opts): with_name, with_key_colors, with_color_space, with_ratios,
\* with_smooth, with_saturation in this order
Color_constructor(opts) ==
  IF ~hasOwnProperty(opts, "name") THEN Thrown("color not provided a name")
  ELSE IF ~hasOwnProperty(opts, "key_colors") THEN Thrown("key colors not defined")
  ELSE IF \E i \in 1..Len(opts.key_colors) : ~chroma_valid(opts.key_colors[i])
       THEN Thrown("invalid color key")
  ELSE IF ~hasOwnProperty(INTERPOLATION_COLOR_SPACES, get(opts, "color_space"))
       THEN Thrown("color space not supported")
  ELSE IF ~hasOwnProperty(opts, "ratios") THEN Thrown("ratios not defined")
  ELSE LET smooth == IF hasOwnProperty(opts, "smooth") THEN opts.smooth ELSE FALSE
           sat    == IF hasOwnProperty(opts, "saturation") THEN opts.saturation ELSE null
       IN Color_with_saturation(
            [name |-> opts.name, key_colors |-> opts.key_colors,
             color_space |-> opts.color_space, ratios |-> opts.ratios,
             smooth |-> smooth, saturation |-> null,
             resolved_key_colors |-> saturate(opts.key_colors, null)], sat)

Color_clone(c) ==
  Color_constructor(
    [name |-> c.name, key_colors |-> c.key_colors,
     resolved_key_colors |-> c.resolved_key_colors, color_space |-> c.color_space,
     ratios |-> c.ratios, smooth |-> c.smooth, saturation |-> c.saturation])

(***************************************************************************)
(* color/background.js, color/generate.js: the scale of background values  *)
(* and the colour the ratio search finds are kept as terms over the inputs *)
(* they are computed from.                                                 *)
(***************************************************************************)
create_background_color_scale(color, fmt) ==
  [key_colors |-> color.key_colors, color_space |-> color.color_space,
   smooth |-> color.smooth, format |-> fmt]

\* scale[lightness]
scale_at(scale, i) == [scale |-> scale, index |-> i]

\* generate_colors throws when contrast() does not recognise the algorithm
generate_colors_throws(alg) == alg \notin CONTRAST_ALGORITHMS

generate_colors(color, bg, base_v, ratio_values, alg) ==
  [i \in 1..Len(ratio_values) |->
     [key_colors |-> color.resolved_key_colors, color_space |-> color.color_space,
      smooth |-> color.smooth, bg |-> bg, base_v |-> base_v,
      ratio |-> ratio_values[i], algorithm |-> alg]]

(***************************************************************************)
(* theme.js: Theme.  t is the record of the private fields, h the heap of  *)
(* Color objects.                                                          *)
(***************************************************************************)
invalidate_output(t) == [t EXCEPT !.output = null]

\* #_invalidate_background_color_value that keeps the cached palette
invalidate_background_color_value_only(t) == [t EXCEPT !.bg_value = null]

invalidate_background_color_value(t) ==
  invalidate_output([t EXCEPT !.bg_value = null])

invalidate_background_color_scale(t) ==
  invalidate_background_color_value([t EXCEPT !.bg_scale = null])

set_colors(t, c) == invalidate_output([t EXCEPT !.colors = c])

set_background_color(t, bg) ==
  invalidate_background_color_scale([t EXCEPT !.background_color = <<bg>>])

set_lightness(t, l) == invalidate_background_color_value([t EXCEPT !.lightness = l])

\* #set_contrast that keeps the cached palette
set_contrast_keeps_output(t, c) == [t EXCEPT !.contrast = c]

set_contrast(t, c) == invalidate_output([t EXCEPT !.contrast = c])

set_algorithm(t, a) == invalidate_output([t EXCEPT !.algorithm = a])

set_output_format(t, f) == invalidate_output([t EXCEPT !.output_format = f])

set_background_color_scale(t, scale) ==
  invalidate_background_color_value([t EXCEPT !.bg_scale = <<scale>>])

set_background_color_value(t, val) ==
  invalidate_output([t EXCEPT !.bg_value = <<val>>])

\* the theme after #get_background_color_scale(); the scale is t.bg_scale[1]
get_background_color_scale(t) ==
  IF t.bg_scale # null THEN t
  ELSE set_background_color_scale(
         t, create_background_color_scale(t.background_color[1], "rgb"))

\* the theme after #get_background_color_value(); the value is t.bg_value[1]
get_background_color_value(t) ==
  IF t.bg_value # null THEN t
  ELSE LET t1 == get_background_color_scale(t)
       IN set_background_color_value(t1, scale_at(t1.bg_scale[1], t1.lightness))

Elems(s) == {s[i] : i \in 1..Len(s)}

\* with_saturation(saturation): [ok, t, h]
Theme_with_saturation(t, h, sat) ==
  IF sat = t.saturation THEN [ok |-> TRUE, t |-> t, h |-> h]
  ELSE LET t1 == [t EXCEPT !.saturation = sat]
       IN IF t.colors # <<>> /\ ~saturation_ok(sat)
          THEN [ok |-> FALSE, t |-> t1, h |-> h,
                error |-> Color_with_saturation(h[t.colors[1]], sat).error]
          ELSE [ok |-> TRUE,
                t |-> set_colors(t1, t1.colors),
                h |-> [id \in DOMAIN h |->
                         IF id \in Elems(t.colors)
                         THEN Color_with_saturation(h[id], sat).color ELSE h[id]]]

\* with_background_color(background_color): [ok, t]
Theme_with_background_color(t, h, bg) ==
  IF bg.kind = "string"
  THEN LET made == Color_constructor(
                     [name |-> "background", colorKeys |-> <<bg.value>>, output |-> "rgb"])
       IN IF ~made.ok THEN [ok |-> FALSE, t |-> t, error |-> made.error]
          ELSE [ok |-> TRUE,
                t |-> invalidate_background_color_scale(
                        set_lightness(set_background_color(t, made.color),
                                      round(bg.value[3], 10, 0)))]
  ELSE [ok |-> TRUE,
        t |-> invalidate_background_color_scale(
                set_background_color(t, Color_clone(h[bg.id]).color))]

\* the fields of a Theme under construction
NewTheme ==
  [colors |-> <<>>, background_color |-> null, lightness |-> 0, contrast |-> 0,
   saturation |-> null, algorithm |-> "", output_format |-> "",
   bg_scale |-> null, bg_value |-> null, output |-> null]

\* new Theme(opts): [ok, t, h]; h is the heap also when the constructor throws
Theme_constructor(opts, h) ==
  LET l   == IF hasOwnProperty(opts, "lightness") THEN opts.lightness ELSE 100
      c   == IF hasOwnProperty(opts, "contrast") THEN opts.contrast ELSE 100
      alg == IF hasOwnProperty(opts, "algorithm") THEN opts.algorithm ELSE "wcag3"
      fmt == IF hasOwnProperty(opts, "output_format") THEN opts.output_format ELSE "rgb"
  IN IF alg \notin CONTRAST_ALGORITHMS
     THEN [ok |-> FALSE, h |-> h, error |-> "contrast algorithm not supported"]
     ELSE IF ~hasOwnProperty(COLOR_SPACES, get(opts, "output_format"))
     THEN [ok |-> FALSE, h |-> h, error |-> "output format not supported"]
     ELSE
       LET t3 == set_contrast(set_lightness(set_colors(NewTheme, opts.colors), l), c)
           s4 == IF hasOwnProperty(opts, "saturation")
                 THEN Theme_with_saturation(t3, h, opts.saturation)
                 ELSE [ok |-> TRUE, t |-> t3, h |-> h]
       IN IF ~s4.ok THEN [ok |-> FALSE, h |-> s4.h, error |-> s4.error]
          ELSE LET t6 == set_output_format(set_algorithm(s4.t, alg), fmt)
                   r7 == Theme_with_background_color(t6, s4.h, opts.background_color)
               IN IF ~r7.ok THEN [ok |-> FALSE, h |-> s4.h, error |-> r7.error]
                  ELSE [ok |-> TRUE, t |-> r7.t, h |-> s4.h]

\* one element of the array palette() maps this.#colors to
palette_color(color, bg, t, fmt) ==
  LET sorted       == ratio_names_sorted(color.ratios)
      swatch_names == [i \in 1..Len(sorted) |->
                         <<color.name, ratio_names(color.ratios, t.algorithm)[i]>>]
      ratio_values == [i \in 1..Len(sorted) |->
                         multiply_contrast_ratio(sorted[i], t.contrast)]
      generated    == generate_colors(color, bg, t.lightness, ratio_values, t.algorithm)
  IN [name |-> color.name,
      values |-> [i \in 1..Len(sorted) |->
                    [name |-> swatch_names[i], contrast |-> ratio_values[i],
                     value |-> fmt_color(generated[i],
                                         IF fmt = undefined THEN t.output_format ELSE fmt)]]]

\* the heap after ratio_names has sorted the ratios of the first n colours
sort_ratios(h, ids, n) ==
  [id \in DOMAIN h |->
     IF \E i \in 1..n : ids[i] = id
     THEN [h[id] EXCEPT !.ratios = ratio_names_sorted(h[id].ratios)] ELSE h[id]]

\* palette(output_format): [ok, cached, t, h, value]
Theme_palette(t, h, fmt) ==
  IF t.output # null
  THEN [ok |-> TRUE, cached |-> TRUE, t |-> t, h |-> h, value |-> t.output[1]]
  ELSE
    LET t1 == get_background_color_value(t)
        bg == t1.bg_value[1]
    IN IF fmt_color_throws(t1.output_format)
       THEN [ok |-> FALSE, cached |-> FALSE, t |-> t1, h |-> h,
             error |-> "unrecognized format"]
       ELSE IF generate_colors_throws(t1.algorithm)
       THEN [ok |-> FALSE, cached |-> FALSE, t |-> t1, h |-> sort_ratios(h, t1.colors, 1),
             error |-> "unrecognized contrast algorithm"]
       ELSE IF fmt_color_throws(IF fmt = undefined THEN t1.output_format ELSE fmt)
       THEN [ok |-> FALSE, cached |-> FALSE, t |-> t1, h |-> sort_ratios(h, t1.colors, 1),
             error |-> "unrecognized format"]
       ELSE
         LET value == [background |-> fmt_color(bg, t1.output_format),
                       colors |-> [i \in 1..Len(t1.colors) |->
                                     palette_color(h[t1.colors[i]], bg, t1, fmt)]]
         IN [ok |-> TRUE, cached |-> FALSE,
             t |-> [t1 EXCEPT !.output = <<value>>],
             h |-> sort_ratios(h, t1.colors, Len(t1.colors)), value |-> value]

(***************************************************************************)
(* Pure-function calls on bounded inputs                                   *)
(***************************************************************************)
NoRet == [fn |-> "none"]

\* no search is running
NoSearch == [pc |-> "idle"]

RatioValues == {-150, -100, -25, 0, 50, 100, 150, 400}
Multipliers == {0, 50, 100, 125, 200}
ExampleRatios == <<-150, -100, -25, 0, 150, 400>>

RatioLists ==
  UNION {[1..n -> RatioValues] : n \in 0..MaxRatios} \cup {ExampleRatios}

RatioCalls ==
       {[fn |-> "multiply_contrast_ratio", ratio |-> r, multiplier |-> m] :
          r \in RatioValues, m \in Multipliers}
  \cup {[fn |-> "is_positive_ratio", algorithm |-> a, r |-> r] :
          a \in CONTRAST_ALGORITHMS, r \in RatioValues}
  \cup {[fn |-> "min_positive_ratio", ratios |-> l, algorithm |-> a] :
          l \in RatioLists, a \in CONTRAST_ALGORITHMS}
  \cup {[fn |-> "ratio_names", ratios |-> l, algorithm |-> a] :
          l \in RatioLists, a \in CONTRAST_ALGORITHMS}

Call_multiply_contrast_ratio ==
  /\ ret = NoRet
  /\ args.fn = "multiply_contrast_ratio"
  /\ ret' = [fn |-> args.fn, value |-> multiply_contrast_ratio(args.ratio, args.multiplier)]
  /\ UNCHANGED <<args, search, themeVars>>

Call_is_positive_ratio ==
  /\ ret = NoRet
  /\ args.fn = "is_positive_ratio"
  /\ ret' = [fn |-> args.fn, value |-> is_positive_ratio(args.algorithm, args.r)]
  /\ UNCHANGED <<args, search, themeVars>>

Call_min_positive_ratio ==
  /\ ret = NoRet
  /\ args.fn = "min_positive_ratio"
  /\ ret' = [fn |-> args.fn, value |-> min_positive_ratio(args.ratios, args.algorithm)]
  /\ UNCHANGED <<args, search, themeVars>>

\* ratio_names sorts the caller's array in place; input keeps the array as passed
Call_ratio_names ==
  /\ ret = NoRet
  /\ args.fn = "ratio_names"
  /\ ret' = [fn |-> args.fn, value |-> ratio_names(args.ratios, args.algorithm),
             input |-> args.ratios]
  /\ args' = [args EXCEPT !.ratios = ratio_names_sorted(args.ratios)]
  /\ UNCHANGED <<search, themeVars>>

\* no Theme has been constructed
NoTheme ==
  /\ constructed = FALSE
  /\ colors = NewTheme.colors
  /\ background_color = NewTheme.background_color
  /\ lightness = NewTheme.lightness
  /\ contrast = NewTheme.contrast
  /\ saturation = NewTheme.saturation
  /\ algorithm = NewTheme.algorithm
  /\ output_format = NewTheme.output_format
  /\ bg_scale = NewTheme.bg_scale
  /\ bg_value = NewTheme.bg_value
  /\ output = NewTheme.output
  /\ result = [op |-> "none", discarded |-> FALSE]

ThemeIdle == NoTheme /\ heap = <<>>

InitRatio ==
  /\ args \in RatioCalls
  /\ ret = NoRet
  /\ search = NoSearch
  /\ ThemeIdle

NextRatio ==
  \/ Call_multiply_contrast_ratio
  \/ Call_is_positive_ratio
  \/ Call_min_positive_ratio
  \/ Call_ratio_names

SpecRatio == InitRatio /\ [][NextRatio]_vars

ChannelValues == {0, 7, 48, 72}
Rgbs ==
  [1..3 -> ChannelValues] \cup
  {<<1024, 1024, 1024>>, <<2040, 2040, 2040>>, <<2040, 0, 0>>, <<0, 1024, 2040>>}
BaseVs == {0, 49, 50, 100}

ContrastCalls ==
  {[fn |-> "contrast", color |-> c, base |-> b, base_v |-> v, algorithm |-> "wcag2"] :
     c \in Rgbs, b \in Rgbs, v \in BaseVs}

\* contrast(color, base, base_v, 'wcag2')
Call_contrast ==
  /\ ret = NoRet
  /\ args.fn = "contrast"
  /\ args.algorithm = "wcag2"
  /\ ret' = [fn |-> args.fn,
             value |-> wcag2_contrast(args.color, args.base, is_darkmode(args.base_v))]
  /\ UNCHANGED <<args, search, themeVars>>

InitContrast ==
  /\ args \in ContrastCalls
  /\ ret = NoRet
  /\ search = NoSearch
  /\ ThemeIdle

NextContrast == Call_contrast

SpecContrast == InitContrast /\ [][NextContrast]_vars

(***************************************************************************)
(* Theme calls on bounded inputs                                           *)
(***************************************************************************)
\* the Color objects of the program; their names hold no letter s, which
\* palette() strips from a name (whitespace_re is /s+/g)
ColorOpts ==
  <<[name |-> "blue", key_colors |-> <<<<250, 100, 503>>>>, color_space |-> "lch",
     ratios |-> <<450, 300>>],
    [name |-> "grey", key_colors |-> <<<<0, 0, 800>>>>, color_space |-> "rgb",
     ratios |-> <<200, -150>>, smooth |-> TRUE]>>

ColorLists == {<<1>>, <<1, 2>>}
BackgroundArgs == {[kind |-> "Color", id |-> 2], [kind |-> "string", value |-> <<0, 0, 953>>]}
LightnessArgs == {50}
ContrastArgs == {200}
SaturationArgs == {<<50>>, <<150>>}
AlgorithmArgs == {"wcag2", "bogus"}
FormatArgs == {"hex", "bogus"}
PaletteArgs == {undefined, "hex", "bogus"}

\* an option that may be left out of an options object
Optional(k, vs) == {<<>>} \cup {k :> v : v \in vs}

ThemeOpts ==
  {[colors |-> cs, background_color |-> bg] @@ f @@ a @@ s :
     cs \in ColorLists, bg \in BackgroundArgs,
     f \in Optional("output_format", {"rgb", "hsluv", "bogus"}),
     a \in Optional("algorithm", {"wcag2", "bogus"}),
     s \in Optional("saturation", {<<50>>})}

\* the private fields of the Theme
T ==
  [colors |-> colors, background_color |-> background_color, lightness |-> lightness,
   contrast |-> contrast, saturation |-> saturation, algorithm |-> algorithm,
   output_format |-> output_format, bg_scale |-> bg_scale, bg_value |-> bg_value,
   output |-> output]

Store(t) ==
  /\ colors' = t.colors
  /\ background_color' = t.background_color
  /\ lightness' = t.lightness
  /\ contrast' = t.contrast
  /\ saturation' = t.saturation
  /\ algorithm' = t.algorithm
  /\ output_format' = t.output_format
  /\ bg_scale' = t.bg_scale
  /\ bg_value' = t.bg_value
  /\ output' = t.output

\* a cached palette has been discarded by this call or by an earlier one
Discarded(t) == result.discarded \/ (output # null /\ t.output = null)

Returned(op, arg, t) ==
  [op |-> op, arg |-> arg, kind |-> "return", discarded |-> Discarded(t)]

Threw(op, arg, t, msg) ==
  [op |-> op, arg |-> arg, kind |-> "throw", error |-> msg, discarded |-> Discarded(t)]

Construct(opts) ==
  /\ ~constructed
  /\ LET r == Theme_constructor(opts, heap)
     IN /\ heap' = r.h
        /\ constructed' = r.ok
        /\ IF r.ok
           THEN Store(r.t) /\ result' = Returned("constructor", opts, r.t)
           ELSE Store(T) /\ result' = Threw("constructor", opts, T, r.error)
  /\ UNCHANGED fnVars

with_colors(cs) ==
  /\ constructed
  /\ LET t == set_colors(T, cs)
     IN Store(t) /\ result' = Returned("with_colors", cs, t)
  /\ UNCHANGED <<constructed, heap, fnVars>>

with_background_color(bg) ==
  /\ constructed
  /\ LET r == Theme_with_background_color(T, heap, bg)
     IN /\ Store(r.t)
        /\ result' = IF r.ok THEN Returned("with_background_color", bg, r.t)
                     ELSE Threw("with_background_color", bg, r.t, r.error)
  /\ UNCHANGED <<constructed, heap, fnVars>>

with_lightness(l) ==
  /\ constructed
  /\ LET t == set_lightness(T, l)
     IN Store(t) /\ result' = Returned("with_lightness", l, t)
  /\ UNCHANGED <<constructed, heap, fnVars>>

with_contrast(c) ==
  /\ constructed
  /\ LET t == set_contrast(T, c)
     IN Store(t) /\ result' = Returned("with_contrast", c, t)
  /\ UNCHANGED <<constructed, heap, fnVars>>

with_saturation(sat) ==
  /\ constructed
  /\ LET r == Theme_with_saturation(T, heap, sat)
     IN /\ Store(r.t)
        /\ heap' = r.h
        /\ result' = IF r.ok THEN Returned("with_saturation", sat, r.t)
                     ELSE Threw("with_saturation", sat, r.t, r.error)
  /\ UNCHANGED <<constructed, fnVars>>

with_algorithm(a) ==
  /\ constructed
  /\ LET t == set_algorithm(T, a)
     IN Store(t) /\ result' = Returned("with_algorithm", a, t)
  /\ UNCHANGED <<constructed, heap, fnVars>>

with_output_format(f) ==
  /\ constructed
  /\ LET t == set_output_format(T, f)
     IN Store(t) /\ result' = Returned("with_output_format", f, t)
  /\ UNCHANGED <<constructed, heap, fnVars>>

palette(f) ==
  /\ constructed
  /\ LET r == Theme_palette(T, heap, f)
     IN /\ Store(r.t)
        /\ heap' = r.h
        /\ result' =
             IF r.ok
             THEN [op |-> "palette", arg |-> f, kind |-> "return", cached |-> r.cached,
                   value |-> r.value, discarded |-> Discarded(r.t)]
             ELSE Threw("palette", f, r.t, r.error)
  /\ UNCHANGED <<constructed, fnVars>>

Init ==
  /\ args = [fn |-> "none"]
  /\ ret = NoRet
  /\ search = NoSearch
  /\ NoTheme
  /\ heap = [id \in 1..Len(ColorOpts) |-> Color_constructor(ColorOpts[id]).color]

Next ==
  \/ \E opts \in ThemeOpts : Construct(opts)
  \/ \E cs \in ColorLists : with_colors(cs)
  \/ \E bg \in BackgroundArgs : with_background_color(bg)
  \/ \E l \in LightnessArgs : with_lightness(l)
  \/ \E c \in ContrastArgs : with_contrast(c)
  \/ \E sat \in SaturationArgs : with_saturation(sat)
  \/ \E a \in AlgorithmArgs : with_algorithm(a)
  \/ \E f \in FormatArgs : with_output_format(f)
  \/ \E f \in PaletteArgs : palette(f)

Spec == Init /\ [][Next]_vars

(***************************************************************************)
(* Properties of Theme (checked under Spec)                                *)
(***************************************************************************)
\* the palette palette(f) computes from the current inputs with every cache empty
C1_Recomputed(f) == Theme_palette(invalidate_background_color_scale(T), heap, f)

\* C1: after any sequence of with_* calls the palette that palette() returns is
\* computed from the theme's current colors, background, lightness, contrast,
\* saturation, algorithm and output format: a palette cached before one of them
\* was changed through a with_* method is never returned afterwards.
C1_NoStalePalette ==
  /\ output # null =>
       \E f \in PaletteArgs : C1_Recomputed(f).ok /\ C1_Recomputed(f).value = output[1]
  /\ result.op = "palette" /\ result.kind = "return" => output = <<result.value>>

\* palette() recomputes after a with_* call has discarded a cached palette
C1_Witness ==
  /\ result.op = "palette"
  /\ result.kind = "return"
  /\ ~result.cached
  /\ result.discarded
  /\ contrast = 200

\* the format the swatches of a palette(f) call are to be in
C2_Requested == IF result.arg = undefined THEN output_format ELSE result.arg

\* C2: palette(f) returns the palette in the colour space f, and in the theme's
\* own output_format only when f is not given, for every call, also when an
\* earlier palette() call with another format argument was made and no with_*
\* call happened in between.
C2_RequestedFormat ==
  result.op = "palette" /\ result.kind = "return" =>
    \A i \in 1..Len(result.value.colors) :
      \A j \in 1..Len(result.value.colors[i].values) :
        result.value.colors[i].values[j].value.space = COLOR_SPACES[C2_Requested]

\* options the constructor is documented to accept, apart from output_format
C3_ValidOpts(opts) ==
  /\ opts.background_color.kind = "Color"
  /\ ("algorithm" \in DOMAIN opts => opts.algorithm \in {"wcag2", "wcag3"})
  /\ ("saturation" \in DOMAIN opts => opts.saturation[1] \in 0..100)

\* C3: constructing a Theme with valid colors and background_color but without
\* an output_format option succeeds and yields a theme whose output_format is
\* 'rgb'.
C3_DefaultFormat ==
  /\ result.op = "constructor"
  /\ "output_format" \notin DOMAIN result.arg
  /\ C3_ValidOpts(result.arg)
  => /\ result.kind = "return"
     /\ constructed
     /\ output_format = "rgb"

\* C4: with_background_color(s) for a valid colour string s completes without
\* throwing, stores a background Color whose only key colour is s, and sets the
\* theme's lightness to the rounded HSLuv lightness of s.
C4_StringBackground ==
  /\ result.op = "with_background_color"
  /\ result.arg.kind = "string"
  /\ chroma_valid(result.arg.value)
  => /\ result.kind = "return"
     /\ background_color # null
     /\ background_color[1].key_colors = <<result.arg.value>>
     /\ lightness = Math_round(result.arg.value[3], 10)

\* C5: an unsupported contrast algorithm or output format is rejected when it is
\* supplied, so that in every Theme state algorithm is 'wcag2' or 'wcag3' and
\* output_format is one fmt_color can format, and palette() never throws an
\* 'unrecognized format' or 'unrecognized contrast algorithm' error.
C5_ValidatedConfig ==
  constructed =>
    /\ algorithm \in {"wcag2", "wcag3"}
    /\ output_format \in {"hex", "rgb", "hsl", "lab", "lch", "oklab", "oklch"}
    /\ ~(/\ result.op = "palette"
          /\ result.arg = undefined
          /\ result.kind = "throw"
          /\ result.error \in {"unrecognized format", "unrecognized contrast algorithm"})

(***************************************************************************)
(* Properties of the ratio functions (checked under SpecRatio)             *)
(***************************************************************************)
\* C6: multiply_contrast_ratio(1, m) = 1 and multiply_contrast_ratio(-1, m) = -1
\* for every multiplier m, and every ratio strictly between -1 and 1 maps to 1.
C6_Neutrality ==
  ret.fn = "multiply_contrast_ratio" =>
    /\ (args.ratio = 100 => ret.value = 100)
    /\ (args.ratio = -100 => ret.value = -100)
    /\ (args.ratio > -100 /\ args.ratio < 100 => ret.value = 100)

\* the threshold the claim states: 0 for wcag3, 1 for wcag2
C7_ClaimedThreshold(alg) == IF alg = "wcag3" THEN 0 ELSE 100
\* the threshold the code uses: 0 for wcag2, 1 for wcag3
C7_AmendedThreshold(alg) == IF alg = "wcag2" THEN 0 ELSE 100

C7_Elems(l) == {l[i] : i \in 1..Len(l)}

C7_ThresholdHolds(t(_)) ==
  /\ ret.fn = "is_positive_ratio" =>
       (ret.value <=> args.r >= t(args.algorithm))
  /\ ret.fn = "min_positive_ratio" =>
       LET pos == {r \in C7_Elems(args.ratios) : r >= t(args.algorithm)}
       IN pos # {} => ret.value \in pos /\ \A r \in pos : ret.value <= r

\* C7 (as stated): the positive-ratio threshold is 0 for wcag3 and 1 for wcag2;
\* is_positive_ratio(alg)(r) is true exactly when r >= it, and min_positive_ratio
\* returns the smallest ratio of the list that is >= it.
C7_Original == C7_ThresholdHolds(C7_ClaimedThreshold)

\* C7 (amended): the positive-ratio threshold is 0 for wcag2 and 1 for wcag3;
\* is_positive_ratio(alg)(r) is true exactly when r >= it, and min_positive_ratio
\* returns the smallest ratio of the list that is >= it when there is one.
C7_Amended == C7_ThresholdHolds(C7_AmendedThreshold)

\* a wcag3 list holding a ratio in [0, 1) whose smallest positive ratio is 1
C7_Witness ==
  /\ ret.fn = "min_positive_ratio"
  /\ args.algorithm = "wcag3"
  /\ 50 \in C7_Elems(args.ratios)
  /\ ret.value = 100

C8_Expected(l, alg) ==
  LET mp == min_positive_ratio(l, alg)
      k  == Cardinality({i \in 1..Len(l) : l[i] < mp})
      p  == Cardinality({i \in 1..Len(l) : l[i] >= mp})
  IN [i \in 1..(k + p) |->
        IF i <= k THEN ToString(Math_round(100 * i, k + 1))
        ELSE ToString(100 * (i - k))]

\* C8: ratio_names names ratios by rank only: with k ratios below the smallest
\* positive ratio and p >= 1 at or above it the names are round(100*(i+1)/(k+1))
\* for i = 0..k-1 followed by 100*(j+1) for j = 0..p-1, as strings; the list
\* [-1.5,-1,-0.25,0,1.5,4] gives 25,50,75,100,200,300 under wcag2 and
\* 20,40,60,80,100,200 under wcag3.
C8_RankNames ==
  ret.fn = "ratio_names" =>
    /\ (min_positive_ratio(ret.input, args.algorithm) # Infinity =>
          ret.value = C8_Expected(ret.input, args.algorithm))
    /\ (ret.input = ExampleRatios /\ args.algorithm = "wcag2" =>
          ret.value = <<"25", "50", "75", "100", "200", "300">>)
    /\ (ret.input = ExampleRatios /\ args.algorithm = "wcag3" =>
          ret.value = <<"20", "40", "60", "80", "100", "200">>)

C8_Witness ==
  /\ ret.fn = "ratio_names"
  /\ ret.input = ExampleRatios
  /\ args.algorithm = "wcag3"
  /\ ret.value = <<"20", "40", "60", "80", "100", "200">>

(***************************************************************************)
(* Properties of wcag2 contrast (checked under SpecContrast)               *)
(***************************************************************************)
C9_Y(c) == wcag2_relative_luminance(c[1], c[2], c[3])

C9_Swapped(v) == wcag2_contrast(args.base, args.color, is_darkmode(v))

\* C9 (as stated): under wcag2, for any two different colours A and B and a fixed
\* background-mode classification, contrast(A, B) equals -contrast(B, A).
C9_Original ==
  ret.fn = "contrast" /\ args.color # args.base =>
    \A v \in BaseVs :
      is_darkmode(v) = is_darkmode(args.base_v) => ret.value = neg(C9_Swapped(v))

\* C9 (amended): under wcag2, for any two colours A and B of different relative
\* luminance and a fixed background-mode classification, contrast(A, B) equals
\* -contrast(B, A); two colours of equal luminance give 1 in both directions.
C9_Amended ==
  ret.fn = "contrast" =>
    \A v \in BaseVs :
      is_darkmode(v) = is_darkmode(args.base_v) =>
        IF C9_Y(args.color) # C9_Y(args.base)
        THEN ret.value = neg(C9_Swapped(v))
        ELSE ret.value = One /\ C9_Swapped(v) = One

\* a light background under a lighter foreground: a negative contrast
C9_Witness ==
  /\ ret.fn = "contrast"
  /\ ~is_darkmode(args.base_v)
  /\ C9_Y(args.color) > C9_Y(args.base)
  /\ ret.value[1] < 0
  /\ neg(C9_Swapped(args.base_v)) = ret.value

\* C10: wcag2 contrast is exactly 1 when foreground and background luminance are
\* equal; otherwise its magnitude is (L_lighter+0.05)/(L_darker+0.05) and it is
\* positive exactly when the background is dark and the foreground lighter, or
\* the background light and the foreground darker.
C10_SignedRatio ==
  ret.fn = "contrast" =>
    LET yc == C9_Y(args.color)
        yb == C9_Y(args.base)
        hi == IF yc > yb THEN yc ELSE yb
        lo == IF yc > yb THEN yb ELSE yc
        dark == args.base_v < 50
    IN IF yc = yb THEN ret.value = <<1, 1>>
       ELSE /\ <<abs(ret.value[1]), ret.value[2]>> = Frac(hi + 32946000, lo + 32946000)
            /\ (ret.value[1] > 0 <=> (dark /\ yc > yb) \/ (~dark /\ yc < yb))

\* two different colours of equal luminance on a light background
C10_Witness ==
  /\ ret.fn = "contrast"
  /\ args.color # args.base
  /\ C9_Y(args.color) = C9_Y(args.base)
  /\ ~is_darkmode(args.base_v)
  /\ ret.value = <<1, 1>>

(***************************************************************************)
(* color/generate.js: search(ratio) of generate_colors                     *)
(*                                                                         *)
(* The scale and the background are given by their contrast profile:       *)
(* contrasts[i + 1] is contrast(to.rgb(scale(i)), bg, base_v, algorithm)   *)
(* for the integer position i in 0..granularity, and a position between    *)
(* two integers reads the entry of Math.round(position), as the lookup of  *)
(* a smooth scale does.  contrast() throws for an unknown algorithm at     *)
(* contrast_at(0), before any search runs.  In this part contrasts and     *)
(* ratios count thousandths (0.005 is 5) and so does a returned position.  *)
(* The position dot is kept as the moves of the loop:                      *)
(*   dot = granularity / 2 + SUM i : moves[i] * granularity / 2^(i + 1).   *)
(***************************************************************************)
Math_sign(n) == IF n > 0 THEN 1 ELSE IF n < 0 THEN -1 ELSE 0

\* SUM i in a..b : moves[i] * g * 2^(b - i)
RECURSIVE sum_moves(_, _, _, _)
sum_moves(moves, g, a, b) ==
  IF b < a THEN 0
  ELSE 2 * sum_moves(moves, g, a, b - 1) + moves[b] * g

\* floor of SUM i >= a : moves[i] * g / 2^(i - a + 1), ten moves at a time:
\* floor((n + y) / m) = floor((n + floor(y)) / m) for integers n and m > 0
RECURSIVE floor_moves(_, _, _)
floor_moves(moves, g, a) ==
  IF Len(moves) < a + 10
  THEN sum_moves(moves, g, a, Len(moves)) \div (2 ^ (Len(moves) - a + 1))
  ELSE (sum_moves(moves, g, a, a + 9) + floor_moves(moves, g, a + 10)) \div (2 ^ 10)

\* Math.round(dot * e) for a dot that starts at granularity
Math_round_dot_from_end(granularity, moves, e) ==
  (2 * granularity * e + 1 + floor_moves(moves, granularity * e, 1)) \div 2

\* Math.round(dot * e) = floor((2 * dot * e + 1) / 2)
Math_round_dot(granularity, moves, e) ==
  (granularity * e + 1 + floor_moves(moves, granularity * e, 1)) \div 2

\* round(dot, 3), counting thousandths
round_dot(granularity, moves) == Math_round_dot(granularity, moves, 1000)

\* a position outside [0, granularity] reads the nearest end, as chroma's scale does
contrast_at(contrasts, granularity, moves) ==
  LET i == Math_round_dot(granularity, moves, 1)
  IN contrasts[(IF i < 0 THEN 0 ELSE IF i > granularity THEN granularity ELSE i) + 1]

\* dir: first = contrast_at(0), last = contrast_at(granularity)
search_dir(contrasts) == IF contrasts[1] < contrasts[Len(contrasts)] THEN 1 ELSE -1

eps == 10

max_iters_101 == 100 + 1
max_iters == 100

\* the sign of the step added to dot
search_move_ignores_dir(c, x, dir) == IF c < x THEN 1 ELSE -1
search_move(c, x, dir) == (IF c < x THEN 1 ELSE -1) * dir

\* const x = ...; let step = granularity / 2; let dot = step; let c = contrast_at(dot)
search_enter ==
  /\ args.fn = "search"
  /\ search.pc = "idle"
  /\ search' = [pc |-> "loop",
                x |-> args.ratio + 5 * Math_sign(args.ratio),
                moves |-> <<>>,
                c |-> contrast_at(args.contrasts, args.granularity, <<>>),
                max_iters |-> max_iters,
                probes |-> 1]
  /\ UNCHANGED <<args, ret, themeVars>>

\* one pass through the body of the while loop
search_iterate ==
  /\ search.pc = "loop"
  /\ abs(search.c - search.x) > eps
  /\ search.max_iters # 0
  /\ LET moves == Append(search.moves,
                         search_move(search.c, search.x, search_dir(args.contrasts)))
     IN search' = [search EXCEPT !.max_iters = @ - 1,
                                 !.moves = moves,
                                 !.c = contrast_at(args.contrasts, args.granularity, moves),
                                 !.probes = @ + 1]
  /\ UNCHANGED <<args, ret, themeVars>>

\* the loop condition fails: return round(dot, 3)
search_return ==
  /\ search.pc = "loop"
  /\ ~(abs(search.c - search.x) > eps /\ search.max_iters # 0)
  /\ search' = [search EXCEPT !.pc = "done"]
  /\ ret' = [fn |-> "search", value |-> round_dot(args.granularity, search.moves)]
  /\ UNCHANGED <<args, themeVars>>

\* greys from white to black against a white and against a black background
GreysOnWhite == <<1000, 1333, 1839, 2647, 3949, 6289, 10368, 16293, 21000>>
GreysOnBlack == <<21000, 15758, 11420, 7934, 5317, 3339, 2025, 1289, 1000>>

\* the greys #797979 to #757575 against white
ConsecutiveGreys == <<4353, 4415, 4478, 4542, 4608>>

ContrastProfiles ==
  {GreysOnWhite, GreysOnBlack, ConsecutiveGreys,
   <<1000, 2000, 3000, 4500, 6000, 8000, 12000, 16000, 20000>>,
   <<4500, 4500, 4500, 4500, 4500>>,
   <<1000, 3000, 2000, 7000>>,
   <<-3000, -1500, -1000, 1000, 1500, 3000>>}

SearchRatios == {-1500, 0, 1000, 3000, 4500, 21000, 25000}

SearchCalls ==
  {[fn |-> "search", granularity |-> Len(p) - 1, contrasts |-> p, ratio |-> r] :
     p \in ContrastProfiles, r \in SearchRatios}

InitSearch ==
  /\ args \in SearchCalls
  /\ ret = NoRet
  /\ search = NoSearch
  /\ ThemeIdle

NextSearch ==
  \/ search_enter
  \/ search_iterate
  \/ search_return

SpecSearch == InitSearch /\ [][NextSearch]_vars

\* the loop is the only thing the call does: it is not suspended forever
SpecSearchFair == SpecSearch /\ WF_vars(NextSearch)

(***************************************************************************)
(* Properties of search (checked under SpecSearch and SpecSearchFair)      *)
(***************************************************************************)
Monotonic(l) ==
  \/ \A i \in 1..(Len(l) - 1) : l[i] <= l[i + 1]
  \/ \A i \in 1..(Len(l) - 1) : l[i] >= l[i + 1]

WithinRange(l, r) == \E i, j \in 1..Len(l) : l[i] <= r /\ r <= l[j]

\* C11: when the contrast is monotonic in the position and the requested ratio lies
\* between two contrasts of the scale, the search returns at a position whose
\* sampled contrast is within 0.01 of the nudged target
C11_Convergence ==
  (search.pc = "done" /\ Monotonic(args.contrasts)
     /\ WithinRange(args.contrasts, args.ratio))
  => abs(search.c - search.x) <= eps

\* C12: every search returns, after at most 100 iterations and at most 101 probes,
\* whether or not the tolerance was reached
C12_Terminates ==
  <>(search.pc = "done" /\ ret.fn = "search"
       /\ Len(search.moves) <= 100 /\ search.probes <= 101)

\* a search that used its whole budget without reaching the tolerance
C12_Witness ==
  /\ search.pc = "done"
  /\ Len(search.moves) = 100
  /\ abs(search.c - search.x) > eps

\* the target is above every contrast / below every contrast by more than margin
AboveAll(l, x, margin) == \A i \in 1..Len(l) : x - l[i] > margin
BelowAll(l, x, margin) == \A i \in 1..Len(l) : l[i] - x > margin

\* the end of the scale the search is driven to, counting thousandths
C13_End ==
  IF AboveAll(args.contrasts, search.x, 0) = (search_dir(args.contrasts) = 1)
  THEN 1000 * args.granularity ELSE 0

C13_DrivenToEnd ==
  /\ \A i, j \in 1..Len(search.moves) : search.moves[i] = search.moves[j]
  /\ ret.value = C13_End

\* C13 as claimed: a target above (or below) the contrast at every position sends
\* every move the same way and the returned position is that end of the scale
C13_Original ==
  (search.pc = "done"
     /\ (AboveAll(args.contrasts, search.x, 0) \/ BelowAll(args.contrasts, search.x, 0)))
  => C13_DrivenToEnd

\* C13 amended: the same when the target is more than 0.01 away from every contrast
C13_Amended ==
  (search.pc = "done"
     /\ (AboveAll(args.contrasts, search.x, eps) \/ BelowAll(args.contrasts, search.x, eps)))
  => C13_DrivenToEnd

C13_Witness ==
  /\ search.pc = "done"
  /\ AboveAll(args.contrasts, search.x, eps)
  /\ search_dir(args.contrasts) = -1
  /\ Len(search.moves) = max_iters
  /\ ret.value = 0

(***************************************************************************)
(* color/color.js: a Color under its own setters.  The Color is heap[1];   *)
(* a call that throws leaves it as the statements before the throw left    *)
(* it.                                                                     *)
(***************************************************************************)
\* the setter of the earlier color.js: it validates nothing and saturate() throws on
\* an invalid key after #key_colors is assigned
Color_with_key_colors_assigns_first(c, key_colors) ==
  IF \E i \in 1..Len(key_colors) : ~chroma_valid(key_colors[i])
  THEN [ok |-> FALSE, error |-> "unknown format", color |-> [c EXCEPT !.key_colors = key_colors]]
  ELSE [ok |-> TRUE,
        color |-> [c EXCEPT !.key_colors = key_colors,
                            !.resolved_key_colors = saturate(key_colors, c.saturation)]]

\* Color.with_key_colors: the asserts come before the assignments
Color_with_key_colors(c, key_colors) ==
  IF \E i \in 1..Len(key_colors) : ~chroma_valid(key_colors[i])
  THEN [ok |-> FALSE, error |-> "invalid color key", color |-> c]
  ELSE [ok |-> TRUE,
        color |-> [c EXCEPT !.key_colors = key_colors,
                            !.resolved_key_colors = saturate(key_colors, c.saturation)]]

KeyColors == {<<250, 100, 503>>, <<120, 37, 800>>}
InvalidKeyColor == <<400, 0, 0>>
KeyColorArgs ==
  UNION {[1..n -> KeyColors] : n \in 1..2} \cup {<<>>, <<<<250, 100, 503>>, InvalidKeyColor>>}
ColorSaturationArgs == {null, <<0>>, <<50>>, <<100>>, <<150>>, <<-1>>}

NewColorOpts ==
  {[name |-> "blue", key_colors |-> kc, color_space |-> "lch", ratios |-> <<450, 300>>] @@ s :
     kc \in KeyColorArgs, s \in Optional("saturation", {null, <<50>>, <<150>>})}

colorIdle == <<args, ret, search, constructed, colors, background_color, lightness, contrast,
               saturation, algorithm, output_format, bg_scale, bg_value, output>>

ColorResult(op, arg, r) ==
  [op |-> op, arg |-> arg, kind |-> IF r.ok THEN "return" ELSE "throw", discarded |-> FALSE]

\* new Color(opts); a constructor that throws leaves no object behind
NewColor(opts) ==
  /\ heap = <<>>
  /\ LET r == Color_constructor(opts)
     IN /\ heap' = IF r.ok THEN <<r.color>> ELSE heap
        /\ result' = ColorResult("new Color", opts, r)
  /\ UNCHANGED colorIdle

CallWithKeyColors(key_colors) ==
  /\ heap # <<>>
  /\ LET r == Color_with_key_colors(heap[1], key_colors)
     IN /\ heap' = <<r.color>>
        /\ result' = ColorResult("Color.with_key_colors", key_colors, r)
  /\ UNCHANGED colorIdle

CallWithSaturation(sat) ==
  /\ heap # <<>>
  /\ LET r == Color_with_saturation(heap[1], sat)
     IN /\ heap' = IF r.ok THEN <<r.color>> ELSE heap
        /\ result' = ColorResult("Color.with_saturation", sat, r)
  /\ UNCHANGED colorIdle

InitColor ==
  /\ args = [fn |-> "none"]
  /\ ret = NoRet
  /\ search = NoSearch
  /\ ThemeIdle

NextColor ==
  \/ \E opts \in NewColorOpts : NewColor(opts)
  \/ \E kc \in KeyColorArgs : CallWithKeyColors(kc)
  \/ \E sat \in ColorSaturationArgs : CallWithSaturation(sat)

SpecColor == InitColor /\ [][NextColor]_vars

(***************************************************************************)
(* Properties of Color (checked under SpecColor)                           *)
(***************************************************************************)
\* a key colour with its HSLuv saturation scaled by sat / 100
C15_Desaturated(key, sat) == <<key[1], (key[2] * sat) \div 100, key[3]>>

\* C15: after construction and any calls of with_key_colors and with_saturation,
\* throwing ones included, resolved_key_colors is key_colors when saturation is null
\* and otherwise the current key_colors desaturated by the current saturation
C15_ResolvedInSync ==
  heap # <<>> =>
    LET c == heap[1]
    IN IF c.saturation = null
       THEN c.resolved_key_colors = c.key_colors
       ELSE /\ Len(c.resolved_key_colors) = Len(c.key_colors)
            /\ \A i \in 1..Len(c.key_colors) :
                 c.resolved_key_colors[i] = C15_Desaturated(c.key_colors[i], c.saturation[1])

\* a with_key_colors call threw on a Color whose saturation and key colours had both
\* been set by earlier calls
C15_Witness ==
  /\ heap # <<>>
  /\ result.op = "Color.with_key_colors"
  /\ result.kind = "throw"
  /\ heap[1].saturation = <<50>>
  /\ heap[1].key_colors = <<<<120, 37, 800>>, <<250, 100, 503>>>>
  /\ heap[1].resolved_key_colors = <<<<120, 18, 800>>, <<250, 50, 503>>>>

(***************************************************************************)
(* color/scale.js: domains and key colours of color_scale                  *)
(*                                                                         *)
(* A domain position counts thousandths of a scale step.  The J of a key   *)
(* colour (to.jch(chroma(key))[0]) is the lightness l of the colour string *)
(* (tenths of a percent), so white has J = 100 and black has J = 0.  A     *)
(* quotient or a root that is no whole number of thousandths is rounded    *)
(* down.  distribute_lightness 'polynomial' is not among the inputs.       *)
(***************************************************************************)
to_jch_J(key) == key[3]

WHITE == <<0, 0, 1000>>
BLACK == <<0, 0, 0>>

RECURSIVE isqrt_between(_, _, _)
isqrt_between(n, lo, hi) ==
  IF lo = hi THEN lo
  ELSE LET mid == (lo + hi + 1) \div 2
       IN IF mid * mid <= n THEN isqrt_between(n, mid, hi)
          ELSE isqrt_between(n, lo, mid - 1)

\* floor(Math.sqrt(n)) for 0 <= n < 2^30
isqrt(n) == isqrt_between(n, 0, 32767)

\* LIGHTNESS_DISTRIBUTIONS[name](x)
LIGHTNESS_DISTRIBUTIONS(name, x) ==
  CASE name = "linear" -> x
    [] name = "parabola" -> isqrt(x * 1000)

\* make_pow_scale(k, d, r)(x): m * x ** k + c
make_pow_scale(k, d, r, x) ==
  LET dk == d[2] ^ k - d[1] ^ k
  IN (((r[2] - r[1]) * (x ^ k)) \div (1000 ^ (k - 1))
        + 1000 * (r[1] * dk - (r[2] - r[1]) * (d[1] ^ k))) \div dk

Math_max(a, b) == IF a < b THEN b ELSE a

RECURSIVE max(_)
max(l) == IF l = <<>> THEN -Infinity
          ELSE LET m == max(Tail(l)) IN IF Head(l) > m THEN Head(l) ELSE m

\* the position get_domains gives one key colour when full_scale is set
full_scale_domain(granularity, key) == granularity * (1000 - to_jch_J(key))

\* the position get_domains gives one key colour of lightness lum otherwise
\* (lum - min) / d is NaN exactly when d = 0, and then lum = min
normalized_domain(granularity, lum, lo, hi) ==
  IF lum = 0 \/ hi - lo = 0 THEN 0
  ELSE granularity * 1000 - ((lum - lo) * granularity * 1000) \div (hi - lo)

get_domains(granularity, key_colors, full_scale) ==
  IF full_scale
  THEN <<0>>
       \o sort_numeric([i \in 1..Len(key_colors) |->
                          full_scale_domain(granularity, key_colors[i])])
       \o <<granularity * 1000>>
  ELSE LET lums == [i \in 1..Len(key_colors) |-> to_jch_J(key_colors[i])]
       IN sort_numeric([i \in 1..Len(lums) |->
                          normalized_domain(granularity, lums[i], min(lums), max(lums))])

\* the place of color_strs[i] after the stable sort by descending J
lightness_rank(color_strs, i) ==
  1 + Cardinality({j \in 1..Len(color_strs) :
                     \/ to_jch_J(color_strs[j]) > to_jch_J(color_strs[i])
                     \/ (to_jch_J(color_strs[j]) = to_jch_J(color_strs[i]) /\ j < i)})

sort_colors_by_lightness(color_strs) ==
  [k \in 1..Len(color_strs) |->
     color_strs[CHOOSE i \in 1..Len(color_strs) : lightness_rank(color_strs, i) = k]]

\* the options of color_scale with their defaults
color_scale_opts(opts) ==
  [shift |-> IF hasOwnProperty(opts, "shift") THEN opts.shift ELSE 1,
   full_scale |-> IF hasOwnProperty(opts, "full_scale") THEN opts.full_scale ELSE TRUE,
   smooth |-> IF hasOwnProperty(opts, "smooth") THEN opts.smooth ELSE FALSE,
   distribute_lightness |-> IF hasOwnProperty(opts, "distribute_lightness")
                            THEN opts.distribute_lightness ELSE "linear",
   sort_color |-> IF hasOwnProperty(opts, "sort_color") THEN opts.sort_color ELSE TRUE]

\* one domain through power_scale and the lightness distribution
distribute(granularity, o, x) ==
  LIGHTNESS_DISTRIBUTIONS(o.distribute_lightness,
    Math_max(0, make_pow_scale(o.shift, <<1, granularity>>, <<1, granularity>>, x)))

\* const domains
color_scale_domains(granularity, key_colors, o) ==
  LET ds == get_domains(granularity, key_colors, o.full_scale)
  IN [i \in 1..Len(ds) |-> distribute(granularity, o, ds[i])]

\* const resolved_key_colors
color_scale_key_colors(key_colors, o) ==
  LET xs == IF o.sort_color THEN sort_colors_by_lightness(key_colors) ELSE key_colors
  IN IF o.full_scale
     THEN <<WHITE>> \o sort_colors_by_lightness(xs) \o <<BLACK>>
     ELSE xs

\* to[space](chroma(String(d))) for the interpolation spaces of the inputs: the
\* HSLuv coordinates of the colour string, l in percent
to_space(space, color) ==
  CASE space = "hsluv" -> <<color[1], color[2], color[3] \div 10>>

\* new Set('hcl', 'hsl', 'hsluv', 'hsv', 'jch'): a Set of the elements of its first
\* argument, the characters of 'hcl'
HUE_COLOR_SPACES == {"h", "c", "l"}

\* NaN (the hue chroma-js reports for a grey): a value no coordinate takes.  The
\* curve engine is evaluated on points without it only.
NaN == -999999
is_nan(n) == n = NaN
is_not_nan(n) == ~is_nan(n)
map_nan_to_zero(n) == IF is_nan(n) THEN 0 ELSE n

\* xs.findIndex(is_not_nan) and xs.findLastIndex(is_not_nan): zero-based, or -1
findIndex_is_not_nan(xs) ==
  IF \E i \in 1..Len(xs) : is_not_nan(xs[i])
  THEN (CHOOSE i \in 1..Len(xs) :
          is_not_nan(xs[i]) /\ \A j \in 1..(i - 1) : is_nan(xs[j])) - 1
  ELSE -1

findLastIndex_is_not_nan(xs) ==
  IF \E i \in 1..Len(xs) : is_not_nan(xs[i])
  THEN (CHOOSE i \in 1..Len(xs) :
          is_not_nan(xs[i]) /\ \A j \in (i + 1)..Len(xs) : is_nan(xs[j])) - 1
  ELSE -1

\* to.jch(chroma('#ccc'))[2]: one fixed number of the library
ccc_jch_h == 210

\* leading NaNs take the first value that is not NaN; a sequence of NaNs only
\* becomes the hue of '#ccc'
fill_leading_nans(xs) ==
  LET i == findIndex_is_not_nan(xs)
  IN IF i # -1 THEN [j \in 1..Len(xs) |-> IF j <= i THEN xs[i + 1] ELSE xs[j]]
     ELSE [j \in 1..Len(xs) |-> ccc_jch_h]

\* trailing NaNs take the last value that is not NaN
fill_trailing_nans(xs) ==
  LET j == findLastIndex_is_not_nan(xs)
  IN [i \in 1..Len(xs) |-> IF i <= j + 1 THEN xs[i] ELSE xs[j + 1]]

\* color_scalars: the colours by component, after the map over the components
color_scalars(cs, space) ==
  [k \in 1..3 |->
     LET xs == [i \in 1..Len(cs) |-> cs[i][k]]
         zs == IF space = "hcl" THEN [i \in 1..Len(xs) |-> map_nan_to_zero(xs[i])] ELSE xs
     IN fill_trailing_nans(fill_leading_nans(zs))]

\* const per_component_points: the control points of the three curves, built from
\* color_scalars.  (color_points, the zip with the NaN points filtered out that the
\* hue branch rewrites when HUE_COLOR_SPACES has the space, is not read after it.)
per_component_points(scalars, domains) ==
  [k \in 1..3 |-> [i \in 1..Len(scalars[k]) |-> <<domains[i], scalars[k][i]>>]]

\* the control points smooth_scale hands to catmull_to_bezier
smooth_scale(cs, domains, space) ==
  per_component_points(color_scalars(cs, space), domains)

\* what color_scale hands to the interpolation: the i-th domain goes with the i-th
\* resolved key colour; points are the control points of a smooth scale
color_scale(granularity, key_colors, color_space, opts) ==
  LET o == color_scale_opts(opts)
      space == COLOR_SPACES[color_space]
      domains == color_scale_domains(granularity, key_colors, o)
      resolved_key_colors == color_scale_key_colors(key_colors, o)
  IN [space |-> space,
      smooth |-> o.smooth,
      domains |-> domains,
      key_colors |-> resolved_key_colors,
      points |-> IF o.smooth
                 THEN smooth_scale(
                        [i \in 1..Len(resolved_key_colors) |->
                           to_space(space, resolved_key_colors[i])], domains, space)
                 ELSE <<>>]

Granularities == {4, 9}
ScaleKeyColors ==
  {BLACK, <<250, 100, 250>>, <<20, 10, 500>>, <<350, 60, 750>>, WHITE}
KeyColorLists == UNION {[1..n -> ScaleKeyColors] : n \in 1..MaxKeyColors}

ScaleOpts ==
  {sm @@ sh @@ f @@ d @@ so :
     sm \in Optional("smooth", {TRUE}),
     sh \in Optional("shift", {1, 2}),
     f \in Optional("full_scale", BOOLEAN),
     d \in Optional("distribute_lightness", {"parabola"}),
     so \in Optional("sort_color", {FALSE})}

\* colours as to[space] returns them (a grey has hue NaN in hsl), at the positions
\* of sorted domains
SmoothColors == {<<NaN, 0, 20>>, <<20, 10, 50>>, <<350, 60, 75>>}
SmoothDomains == <<0, 1000, 3000>>
SmoothCalls ==
  {[fn |-> "smooth_scale", colors |-> c, domains |-> SubSeq(SmoothDomains, 1, Len(c)),
    space |-> sp] :
     c \in UNION {[1..n -> SmoothColors] : n \in 1..Len(SmoothDomains)},
     sp \in {"hsl", "hsluv"}}

ScaleCalls ==
       SmoothCalls
  \cup {[fn |-> "get_domains", granularity |-> g, key_colors |-> kc, full_scale |-> f] :
          g \in Granularities, kc \in KeyColorLists, f \in BOOLEAN}
  \cup {[fn |-> "color_scale", granularity |-> g, key_colors |-> kc,
         color_space |-> "hsluv", opts |-> o] :
          g \in Granularities, kc \in KeyColorLists, o \in ScaleOpts}

Call_get_domains ==
  /\ ret = NoRet
  /\ args.fn = "get_domains"
  /\ ret' = [fn |-> args.fn,
             value |-> get_domains(args.granularity, args.key_colors, args.full_scale)]
  /\ UNCHANGED <<args, search, themeVars>>

Call_color_scale ==
  /\ ret = NoRet
  /\ args.fn = "color_scale"
  /\ ret' = [fn |-> args.fn,
             value |-> color_scale(args.granularity, args.key_colors, args.color_space,
                                   args.opts)]
  /\ UNCHANGED <<args, search, themeVars>>

Call_smooth_scale ==
  /\ ret = NoRet
  /\ args.fn = "smooth_scale"
  /\ ret' = [fn |-> args.fn, value |-> smooth_scale(args.colors, args.domains, args.space)]
  /\ UNCHANGED <<args, search, themeVars>>

InitScale ==
  /\ args \in ScaleCalls
  /\ ret = NoRet
  /\ search = NoSearch
  /\ ThemeIdle

NextScale ==
  \/ Call_get_domains
  \/ Call_color_scale
  \/ Call_smooth_scale

SpecScale == InitScale /\ [][NextScale]_vars

(***************************************************************************)
(* Properties of the domains (checked under SpecScale)                     *)
(***************************************************************************)
NonDecreasing(l) == \A i \in 1..(Len(l) - 1) : l[i] <= l[i + 1]

\* C16: with full_scale the domains color_scale computes are non-decreasing, the
\* first is exactly 0 and the last is exactly granularity
C16_FullScaleDomains ==
  (ret.fn = "color_scale" /\ color_scale_opts(args.opts).full_scale)
  => LET ds == ret.value.domains
     IN /\ NonDecreasing(ds)
        /\ ds[1] = 0
        /\ ds[Len(ds)] = 1000 * args.granularity

\* the position derived from the lightness of one colour of a color_scale call
C19_Derived(color) ==
  LET o == color_scale_opts(args.opts)
      lums == [i \in 1..Len(args.key_colors) |-> to_jch_J(args.key_colors[i])]
  IN distribute(args.granularity, o,
       IF o.full_scale THEN full_scale_domain(args.granularity, color)
       ELSE normalized_domain(args.granularity, to_jch_J(color), min(lums), max(lums)))

\* C19: color_scale pairs every key colour with the domain derived from the lightness
\* of that colour
C19_PairedWithOwnDomain ==
  ret.fn = "color_scale"
  => \A i \in 1..Len(ret.value.key_colors) :
       ret.value.domains[i] = C19_Derived(ret.value.key_colors[i])

\* C20: get_domains without full_scale gives the lightest key colour 0, the darkest
\* granularity and no lighter colour a larger position than a darker one, or 0 to
\* every colour when all are equally light
C20_MinMaxNormalized ==
  (ret.fn = "get_domains" /\ ~args.full_scale)
  => LET lums == [i \in 1..Len(args.key_colors) |-> to_jch_J(args.key_colors[i])]
         lo == min(lums)
         hi == max(lums)
         pos == [i \in 1..Len(lums) |->
                   normalized_domain(args.granularity, lums[i], lo, hi)]
     IN /\ ret.value = sort_numeric(pos)
        /\ IF lo = hi
           THEN \A i \in 1..Len(pos) : pos[i] = 0
           ELSE /\ \A i \in 1..Len(pos) : lums[i] = hi => pos[i] = 0
                /\ \A i \in 1..Len(pos) : lums[i] = lo => pos[i] = 1000 * args.granularity
                /\ \A i, j \in 1..Len(pos) : lums[i] > lums[j] => pos[i] <= pos[j]

(***************************************************************************)
(* math/curve.js, math/point.js                                            *)
(*                                                                         *)
(* A Point is <<x, y>>.  Control points have whole coordinates; the points *)
(* of a CubicBezier count sixths (catmull_to_bezier divides by 6), and so  *)
(* do the values of a lookup table, rounded down.  A length counts 1/600   *)
(* and is rounded down.                                                    *)
(***************************************************************************)
point_add(p, q) == <<p[1] + q[1], p[2] + q[2]>>
point_neg(p) == <<-p[1], -p[2]>>
point_mul(n, p) == <<n * p[1], n * p[2]>>

\* the segments of the spline through cps, in sixths
catmull_to_bezier(cps) ==
  LET n == Len(cps)
      ns1 == n - 1
      ns2 == n - 2
  IN [k \in 1..ns1 |->
        LET i == k - 1
            v1 == cps[Math_max(i - 1, 0) + 1]
            v2 == cps[i + 1]
            v3 == IF i < ns1 THEN cps[i + 2]
                  ELSE point_add(point_add(v2, v2), point_neg(v1))
            v4 == IF i < ns2 THEN cps[i + 3]
                  ELSE point_add(point_add(v3, v3), point_neg(v2))
        IN <<point_mul(6, v2),
             point_add(point_add(point_neg(v1), point_mul(6, v2)), v3),
             point_add(point_add(point_neg(v4), point_mul(6, v3)), v2),
             point_mul(6, v3)>>]

\* point_at(curve, i / n), counting 1 / (6 * n^3)
point_at(curve, i, n) ==
  LET t1 == n - i
  IN point_add(point_add(point_mul(t1 * t1 * t1, curve[1]),
                         point_mul(3 * t1 * t1 * i, curve[2])),
               point_add(point_mul(3 * t1 * i * i, curve[3]),
                         point_mul(i * i * i, curve[4])))

\* dist of two points counting 1/6000, counting 1/600
dist(p, q) ==
  LET dx == (q[1] - p[1]) \div 10
      dy == (q[2] - p[2]) \div 10
  IN isqrt(dx * dx + dy * dy)

steps == 10

RECURSIVE polyline_len(_, _)
polyline_len(curve, i) ==
  IF i = 0 THEN 0
  ELSE polyline_len(curve, i - 1)
         + dist(point_at(curve, i - 1, steps), point_at(curve, i, steps))

approximate_bezier_len(curve) == polyline_len(curve, steps)

\* const len = Math.floor(approximate_bezier_len(curve) * .75)
curve_len(curve) == (3 * approximate_bezier_len(curve)) \div 2400

\* ind and y of pass i of the sampling loop (len > 0)
sample_ind(curve, len, i) == Math_round(point_at(curve, i, len)[1], 6 * len * len * len)
sample_y(curve, len, i) == point_at(curve, i, len)[2] \div (len * len * len)

\* prev_ind at the start of pass i
sample_prev_ind(curve, len, i) == IF i = 0 THEN 0 ELSE sample_ind(curve, len, i - 1)

\* lookup[prev_ind] in pass i: the y of the pass before, or the null of lookup[0],
\* which the arithmetic of the fill reads as 0
sample_prev_y(curve, len, i) == IF i = 0 THEN 0 ELSE sample_y(curve, len, i - 1)

\* pass i assigns lookup[j]: lookup[ind] = y, or the fill of the skipped indexes
pass_writes(curve, len, i, j) ==
  \/ sample_ind(curve, len, i) = j
  \/ sample_prev_ind(curve, len, i) < j /\ j < sample_ind(curve, len, i)

pass_value(curve, len, i, j) ==
  IF sample_ind(curve, len, i) = j THEN sample_y(curve, len, i)
  ELSE LET s == sample_prev_y(curve, len, i)
           f == sample_y(curve, len, i)
           prev_ind == sample_prev_ind(curve, len, i)
       IN s + ((f - s) * (j - prev_ind)) \div (sample_ind(curve, len, i) - prev_ind)

\* lookup[j] after the sampling loop: what the last pass that assigned it wrote
sampled(curve, len, j) ==
  LET passes == {i \in 0..len : pass_writes(curve, len, i, j)}
  IN IF passes = {} THEN null
     ELSE <<pass_value(curve, len, CHOOSE i \in passes : \A k \in passes : k <= i, j)>>

\* lookup.length: len + 1, or more when a pass wrote beyond it
lookup_length(curve, len) ==
  LET inds == {sample_ind(curve, len, i) : i \in 0..len}
  IN Math_max(len + 1, 1 + CHOOSE m \in inds : \A k \in inds : k <= m)

\* the loop from the end of the table: a null takes the value that follows it
back_fill_skipped(table, j) == table[j]
back_fill(table, j) ==
  IF table[j] # null \/ \A k \in (j + 1)..Len(table) : table[k] = null THEN table[j]
  ELSE table[CHOOSE k \in (j + 1)..Len(table) :
               table[k] # null /\ \A m \in (j + 1)..(k - 1) : table[m] = null]

\* the table behind the function prepare_curve returns; entry j + 1 is lookup[j].
\* With len = 0 the only pass has t = 0 / 0: its y is stored under the key NaN.
prepare_curve(curve) ==
  LET len == curve_len(curve)
  IN IF len = 0 THEN <<null>>
     ELSE LET table == [j \in 1..lookup_length(curve, len) |-> sampled(curve, len, j - 1)]
          IN [j \in 1..Len(table) |-> back_fill(table, j)]

\* (x) => lookup[Math.round(x)] ?? null, for a whole x
lookup_at(lookup, x) == IF x + 1 \in 1..Len(lookup) THEN lookup[x + 1] ELSE null

CurveXs == {0, 1, 3, 6, 30}
CurveYs == {0, 2, 9}
MaxControlPoints == 3

\* control points with increasing x, as zip([domains, points]) of sorted domains
ControlPointLists ==
  {cps \in UNION {[1..n -> CurveXs \X CurveYs] : n \in 1..MaxControlPoints} :
     \A i \in 1..(Len(cps) - 1) : cps[i][1] < cps[i + 1][1]}

CurveCalls ==
       {[fn |-> "catmull_to_bezier", cps |-> cps] : cps \in ControlPointLists}
  \cup UNION {{[fn |-> "prepare_curve", curve |-> catmull_to_bezier(cps)[k]] :
                 k \in 1..(Len(cps) - 1)} : cps \in ControlPointLists}

Call_catmull_to_bezier ==
  /\ ret = NoRet
  /\ args.fn = "catmull_to_bezier"
  /\ ret' = [fn |-> args.fn, value |-> catmull_to_bezier(args.cps)]
  /\ UNCHANGED <<args, search, themeVars>>

Call_prepare_curve ==
  /\ ret = NoRet
  /\ args.fn = "prepare_curve"
  /\ ret' = [fn |-> args.fn, value |-> prepare_curve(args.curve)]
  /\ UNCHANGED <<args, search, themeVars>>

InitCurve ==
  /\ args \in CurveCalls
  /\ ret = NoRet
  /\ search = NoSearch
  /\ ThemeIdle

NextCurve ==
  \/ Call_catmull_to_bezier
  \/ Call_prepare_curve

SpecCurve == InitCurve /\ [][NextCurve]_vars

(***************************************************************************)
(* Properties of the curve engine (checked under SpecCurve)                *)
(***************************************************************************)
\* the largest index a pass of the sampling loop stored its y at
C18_Reached ==
  LET len == curve_len(args.curve)
      inds == {sample_ind(args.curve, len, i) : i \in 0..len}
  IN CHOOSE m \in inds : \A k \in inds : k <= m

\* C18 as claimed: the lookup prepare_curve returns is non-null for every integer x
\* in [0, table_length - 1]
C18_Original ==
  ret.fn = "prepare_curve"
  => \A x \in 0..(Len(ret.value) - 1) : lookup_at(ret.value, x) # null

\* C18 amended: when the segment is long enough for one step, the lookup is non-null
\* from 0 to the largest sampled index and null from there to table_length - 1
C18_Amended ==
  (ret.fn = "prepare_curve" /\ curve_len(args.curve) >= 1)
  => /\ \A x \in 0..C18_Reached : lookup_at(ret.value, x) # null
     /\ \A x \in (C18_Reached + 1)..(Len(ret.value) - 1) : lookup_at(ret.value, x) = null

\* a table that needed the fill of skipped indexes and the back-fill of lookup[0], and
\* that ends in nulls
C18_Witness ==
  /\ ret.fn = "prepare_curve"
  /\ curve_len(args.curve) >= 1
  /\ sampled(args.curve, curve_len(args.curve), 0) = null
  /\ \E j \in 1..C18_Reached :
       \A i \in 0..curve_len(args.curve) : sample_ind(args.curve, curve_len(args.curve), i) # j
  /\ C18_Reached + 1 < Len(ret.value)

(***************************************************************************)
(* color/scale.js: the function a smooth or plain scale returns            *)
(*                                                                         *)
(* The curve engine works on whole coordinates: the scales evaluated here  *)
(* have whole domain positions.  A colour is the triple of its channels,   *)
(* each null or <<value>> (sixths, as the lookup tables); the colour of a  *)
(* chroma.scale is a term.                                                 *)
(***************************************************************************)
whole_points(points) == [i \in 1..Len(points) |-> <<points[i][1] \div 1000, points[i][2]>>]

\* for (const f of fs) { const r = f(d); if (r !== null) { return r } } return null
first_lookup(fs, d) ==
  IF \A s \in 1..Len(fs) : lookup_at(fs[s], d) = null THEN null
  ELSE lookup_at(fs[CHOOSE s \in 1..Len(fs) :
                      /\ lookup_at(fs[s], d) # null
                      /\ \A r \in 1..(s - 1) : lookup_at(fs[r], d) = null], d)

\* the channels ch of smooth_scale(...)(d)
smooth_scale_at(points, d) ==
  [k \in 1..3 |->
     LET segments == catmull_to_bezier(whole_points(points[k]))
     IN first_lookup([s \in 1..Len(segments) |-> prepare_curve(segments[s])], d)]

\* color_scale(..., {as_fn: true})(d)
color_scale_at(scale, d) ==
  IF scale.smooth THEN smooth_scale_at(scale.points, d)
  ELSE [k \in 1..3 |-> <<[chroma_scale |-> scale.key_colors, domain |-> scale.domains,
                         mode |-> scale.space, at |-> d, channel |-> k]>>]

EvaluatedGranularities == {4}
EvaluatedKeyColors == {BLACK, <<90, 40, 250>>, <<20, 10, 500>>, WHITE}

ScaleAtCalls ==
  UNION {{[fn |-> "color_scale_at", granularity |-> g, key_colors |-> kc,
           color_space |-> "hsluv", opts |-> [smooth |-> sm, full_scale |-> f], d |-> d] :
            kc \in UNION {[1..n -> EvaluatedKeyColors] : n \in 1..2},
            sm \in BOOLEAN, f \in BOOLEAN, d \in 0..g} : g \in EvaluatedGranularities}

Call_color_scale_at ==
  /\ ret = NoRet
  /\ args.fn = "color_scale_at"
  /\ ret' = [fn |-> args.fn,
             value |-> color_scale_at(
                         color_scale(args.granularity, args.key_colors, args.color_space,
                                     args.opts), args.d)]
  /\ UNCHANGED <<args, search, themeVars>>

InitScaleAt ==
  /\ args \in ScaleAtCalls
  /\ ret = NoRet
  /\ search = NoSearch
  /\ ThemeIdle

NextScaleAt == Call_color_scale_at

SpecScaleAt == InitScaleAt /\ [][NextScaleAt]_vars

(***************************************************************************)
(* Properties of the scale function (SpecScaleAt) and of the control       *)
(* points of a smooth scale (SpecScale)                                    *)
(***************************************************************************)
\* C14: with exactly one key colour the colour of every position in [0, granularity]
\* has every channel non-null, whatever smooth and full_scale are
C14_SingleKeyDefined ==
  (ret.fn = "color_scale_at" /\ Len(args.key_colors) = 1)
  => \A k \in 1..3 : ret.value[k] # null

\* C17: in a smooth scale over a space with a hue, the hues of two consecutive control
\* points handed to catmull_to_bezier differ by at most 180
C17_HueUnwrapped ==
  (ret.fn = "color_scale" /\ ret.value.smooth /\ ret.value.space = "hsluv")
  => LET hues == ret.value.points[1]
     IN \A i \in 1..(Len(hues) - 1) : abs(hues[i + 1][2] - hues[i][2]) <= 180

\* C21: no control point smooth_scale hands to catmull_to_bezier has a NaN coordinate
C21_NoNaNControlPoint ==
  ret.fn = "smooth_scale"
  => \A k \in 1..3 : \A i \in 1..Len(ret.value[k]) : is_not_nan(ret.value[k][i][2])

(***************************************************************************)
(* Properties of the segments of a spline (checked under SpecCurve, whose  *)
(* control points have strictly increasing x)                              *)
(***************************************************************************)
\* C22: along a segment catmull_to_bezier made from control points of strictly
\* increasing x, x grows from one sample of prepare_curve's walk to the next, the
\* rounded index never decreases, and it stays within the segment's own x-range
C22_IncreasingAlongX ==
  (ret.fn = "prepare_curve" /\ curve_len(args.curve) >= 1)
  => LET len == curve_len(args.curve)
         lo == Math_round(args.curve[1][1], 6)
         hi == Math_round(args.curve[4][1], 6)
     IN /\ \A i \in 0..(len - 1) :
             /\ point_at(args.curve, i, len)[1] < point_at(args.curve, i + 1, len)[1]
             /\ sample_ind(args.curve, len, i) <= sample_ind(args.curve, len, i + 1)
        /\ \A i \in 0..len :
             lo <= sample_ind(args.curve, len, i) /\ sample_ind(args.curve, len, i) <= hi

\* the segment from v2 to v3 of the spline through v1, v2, v3, v4, in sixths
C23_Segment(v1, v2, v3, v4) ==
  <<point_mul(6, v2),
    point_add(point_add(point_neg(v1), point_mul(6, v2)), v3),
    point_add(point_add(point_neg(v4), point_mul(6, v3)), v2),
    point_mul(6, v3)>>

\* the point that continues the line from p to q beyond q: 2 * q - p
C23_Extrapolated(p, q) == point_add(point_add(q, q), point_neg(p))

\* C23: the first segment is computed with the phantom predecessor 2*cps[0] - cps[1]
\* and the last segment with the phantom successor 2*cps[n-1] - cps[n-2]
C23_PhantomPoints ==
  (ret.fn = "catmull_to_bezier" /\ Len(args.cps) >= 2)
  => LET cps == args.cps
         n == Len(cps)
         before == C23_Extrapolated(cps[2], cps[1])
         after == C23_Extrapolated(cps[n - 1], cps[n])
     IN /\ ret.value[1] =
             C23_Segment(before, cps[1], cps[2], IF n >= 3 THEN cps[3] ELSE after)
        /\ ret.value[n - 1] =
             C23_Segment(IF n >= 3 THEN cps[n - 2] ELSE before, cps[n - 1], cps[n], after)

(***************************************************************************)
(* color/background.js: the array create_background_color_scale builds     *)
(* from the colours of the scale.  The array color_scale(1000, ...)        *)
(* returned is an argument of the call.                                    *)
(***************************************************************************)
\* map((c, i) => ({ value: Math.round(to.hsluv(chroma(c))[2]), i }))
bg_values(bg_color_scale) ==
  [i \in 1..Len(bg_color_scale) |->
     [value |-> Math_round(bg_color_scale[i][3], 10), i |-> i - 1]]

\* uniq_by('value'): a Map keeps a key at the place it was first set and the element
\* it was last set to
uniq_by_value(l) ==
  LET firsts == {i \in 1..Len(l) : \A j \in 1..(i - 1) : l[j].value # l[i].value}
      last(i) == CHOOSE j \in 1..Len(l) :
                   /\ l[j].value = l[i].value
                   /\ \A k \in (j + 1)..Len(l) : l[k].value # l[i].value
  IN [k \in 1..Cardinality(firsts) |->
        l[last(CHOOSE i \in firsts : Cardinality({j \in firsts : j < i}) = k - 1)]]

\* sort_numeric_by(o => o.value): a stable sort
sort_numeric_by_value(l) ==
  LET before(i) == {j \in 1..Len(l) :
                      l[j].value < l[i].value \/ (l[j].value = l[i].value /\ j < i)}
  IN [k \in 1..Len(l) |-> l[CHOOSE i \in 1..Len(l) : Cardinality(before(i)) = k - 1]]

take(n, l) == IF Len(l) <= n THEN l ELSE SubSeq(l, 1, n)

push(x, l) == Append(l, x)

bg_color_arr(bg_color_scale) ==
  LET os == sort_numeric_by_value(uniq_by_value(bg_values(bg_color_scale)))
  IN push(WHITE, take(100, [k \in 1..Len(os) |-> bg_color_scale[os[k].i + 1]]))

\* create_background_color_scale for a colour whose scale is the array scale
final_bg_color_scale(scale, key_colors, fmt) ==
  LET arr == bg_color_arr(scale \o key_colors)
  IN [k \in 1..Len(arr) |-> fmt_color(arr[k], fmt)]

\* scales: from white to black with every whole lightness, and shorter ones
WholeLightnessScale == [i \in 1..101 |-> <<0, 0, 10 * (101 - i)>>]
BgScales == {WholeLightnessScale, <<WHITE, <<20, 10, 500>>, BLACK>>, <<WHITE, BLACK>>}
BgKeyColors ==
  {<<20, 10, 500>>, <<350, 60, 500>>, <<350, 60, 504>>, <<250, 100, 250>>,
   <<0, 0, 996>>, WHITE}

BgCalls ==
  {[fn |-> "create_background_color_scale", scale |-> sc, key_colors |-> kc,
    output_format |-> f] :
     sc \in BgScales, kc \in UNION {[1..n -> BgKeyColors] : n \in 1..2},
     f \in {"rgb", "hsl"}}

Call_create_background_color_scale ==
  /\ ret = NoRet
  /\ args.fn = "create_background_color_scale"
  /\ ret' = [fn |-> args.fn,
             value |-> final_bg_color_scale(args.scale, args.key_colors, args.output_format)]
  /\ UNCHANGED <<args, search, themeVars>>

InitBackground ==
  /\ args \in BgCalls
  /\ ret = NoRet
  /\ search = NoSearch
  /\ ThemeIdle

NextBackground == Call_create_background_color_scale

SpecBackground == InitBackground /\ [][NextBackground]_vars

\* C24: every key colour of the background Color is, formatted, in the array
\* create_background_color_scale returns
C24_KeyColorsPresent ==
  ret.fn = "create_background_color_scale"
  => \A i \in 1..Len(args.key_colors) :
       \E k \in 1..Len(ret.value) :
         ret.value[k] = fmt_color(args.key_colors[i], args.output_format)

(***************************************************************************)
(* The positions search probes (checked under SpecSearch)                  *)
(***************************************************************************)
\* C25: every position the search probes is inside [0, granularity]: with
\* S = SUM i : moves[i] * granularity / 2^i the position is (granularity + S) / 2,
\* so -granularity <= S < granularity, and the index read is within 0..granularity
C25_ProbesInsideScale ==
  search.pc # "idle"
  => LET g == args.granularity
         S == floor_moves(search.moves, g, 1)
     IN /\ -g <= S /\ S < g
        /\ Math_round_dot(g, search.moves, 1) \in 0..g
        /\ Math_round_dot(g, search.moves, 1000) \in 0..(1000 * g)

\* a search that moved up on each of its 100 iterations: its last probe rounds to
\* the upper end of the scale
C25_Witness ==
  /\ search.pc = "loop"
  /\ Len(search.moves) = max_iters
  /\ \A i \in 1..Len(search.moves) : search.moves[i] = 1
  /\ Math_round_dot(args.granularity, search.moves, 1000) = 1000 * args.granularity

(***************************************************************************)
(* The derived caches of Theme (checked under Spec)                        *)
(***************************************************************************)
\* C26: in every reachable Theme state the cached palette is non-null only if the
\* cached background colour value is non-null, which is non-null only if the
\* cached background colour scale is non-null
C26_NestedCaches ==
  /\ output # null => bg_value # null
  /\ bg_value # null => bg_scale # null

\* with_lightness after a palette() call: the value and the palette are gone, the
\* scale is kept
C26_Witness ==
  /\ result.op = "with_lightness"
  /\ result.discarded
  /\ bg_scale # null
  /\ bg_value = null
  /\ output = null

(***************************************************************************)
(* theme.js with color.js: a Theme and the holder of its Color objects.    *)
(* The constructor and with_colors store the Color objects they are given, *)
(* and the colors getter returns them: their own setters can be called     *)
(* while the Theme holds them.                                             *)
(***************************************************************************)
Color_with_ratios(c, ratios) == [ok |-> TRUE, color |-> [c EXCEPT !.ratios = ratios]]

themeFields == <<colors, background_color, lightness, contrast, saturation, algorithm,
                 output_format, bg_scale, bg_value, output>>

\* theme.colors[i].with_ratios(ratios)
color_with_ratios(id, ratios) ==
  /\ constructed
  /\ id \in Elems(colors)
  /\ heap' = [heap EXCEPT ![id] = Color_with_ratios(heap[id], ratios).color]
  /\ result' = [op |-> "Color.with_ratios", arg |-> <<id, ratios>>, kind |-> "return",
                discarded |-> result.discarded]
  /\ UNCHANGED <<constructed, themeFields, fnVars>>

\* theme.colors[i].with_saturation(saturation)
color_with_saturation(id, sat) ==
  /\ constructed
  /\ id \in Elems(colors)
  /\ LET r == Color_with_saturation(heap[id], sat)
     IN /\ heap' = IF r.ok THEN [heap EXCEPT ![id] = r.color] ELSE heap
        /\ result' = [op |-> "Color.with_saturation", arg |-> <<id, sat>>,
                      kind |-> IF r.ok THEN "return" ELSE "throw",
                      discarded |-> result.discarded]
  /\ UNCHANGED <<constructed, themeFields, fnVars>>

\* <<identity of the Color, argument of the call>>
SharedRatioArgs == (1..Len(ColorOpts)) \X {<<700>>, <<300, 450>>}
SharedSaturationArgs == (1..Len(ColorOpts)) \X SaturationArgs

NextShared ==
  \/ \E opts \in ThemeOpts : Construct(opts)
  \/ \E f \in PaletteArgs : palette(f)
  \/ \E a \in SharedRatioArgs : color_with_ratios(a[1], a[2])
  \/ \E a \in SharedSaturationArgs : color_with_saturation(a[1], a[2])

SpecShared == Init /\ [][NextShared]_vars

\* C27: a palette() call returns the palette computed from the Color objects of
\* theme.colors as they are, also when one of them was changed through its own
\* setters after an earlier palette() call
C27_ReflectsColors ==
  (result.op = "palette" /\ result.kind = "return")
  => \E f \in PaletteArgs : C1_Recomputed(f).ok /\ C1_Recomputed(f).value = result.value

(***************************************************************************)
(* What palette() does to the Color objects (checked under Spec)           *)
(***************************************************************************)
\* C28: a palette() call leaves the ratios of every Color of the theme as they were:
\* the same elements in the same order (ratio_names does not modify its argument)
C28_PaletteKeepsRatios ==
  [][result'.op = "palette"
       => \A i \in 1..Len(colors) : heap'[colors[i]].ratios = heap[colors[i]].ratios]_vars

(***************************************************************************)
(* The number of names ratio_names returns (checked under SpecRatio)       *)
(***************************************************************************)
\* C29: ratio_names returns one name per ratio it was given, all names distinct,
\* also when no ratio is positive for the algorithm and for the empty list
C29_OneNamePerRatio ==
  ret.fn = "ratio_names"
  => /\ Len(ret.value) = Len(ret.input)
     /\ \A i, j \in 1..Len(ret.value) : i # j => ret.value[i] # ret.value[j]

====
